---- MODULE Spec2Model ----
(***************************************************************************)
(* State-machine model of the subtitle pipeline of ExtractorVideos.py and  *)
(* of the /qa endpoint of app.py.                                          *)
(*                                                                         *)
(* Representation of Python values:                                        *)
(*   - a str is a sequence of one-character strings: "Hola" is             *)
(*     <<"H","o","l","a">>, "" is <<>>; len(s) is Len(s), s + t is s \o t. *)
(*     A printable ASCII character and each of \t \n \f \r is itself;     *)
(*     any other character U+XXXX is the one-element token "uXXXX" (four   *)
(*     upper-case hex digits): the en dash of ts_range is EnDash, the      *)
(*     no-break space is "u00A0".                                          *)
(*   - a time in seconds is a Python float: an IEEE 754 binary64 number.   *)
(*     The float x >= 0 is the record [t, r1, r0] with                     *)
(*         x = t / 2^10 + r1 / 2^36 + r0 / 2^62,   0 <= r1, r0 < 2^26,     *)
(*     that is x * 2^62 written in the three limbs t, r1, r0.  t counts    *)
(*     ticks of 1/TicksPerSecond second.  Every float that is 0 or at      *)
(*     least 2^-10 and below 2^20 has exactly one such record (one with at *)
(*     most 53 significant bits); these are the floats modelled.  The      *)
(*     operators F* below compute on the limbs what the processor computes *)
(*     on floats: the exact result rounded to 53 significant bits, ties to *)
(*     even.  A float with r1 = r0 = 0 is "on the tick grid".              *)
(*   - a cue / chunk dict is a record [start, end, text]; None is the      *)
(*     record NoneVal.                                                     *)
(***************************************************************************)
EXTENDS Integers, Sequences, FiniteSets, TLC

VARIABLES
    \* parse_segments (src/ExtractorVideos.py:44-73)
    raw,            \* the argument raw: a list of cue dicts
    max_seconds,    \* the argument max_seconds (whole seconds)
    max_chars,      \* the argument max_chars
    idx,            \* position of the for loop of line 54 in raw (1-based)
    curr,           \* the local curr: NoneVal or the chunk being accumulated
    chunks,         \* the local chunks: the closed chunks
    result,         \* the local result: the returned list
    pc,             \* "idle", "loop", "format", "done"
    members,        \* history: for each closed chunk, the indices of raw merged into it
    currMembers,    \* history: the indices of raw merged into curr
    \* seconds_to_timestamp (src/ExtractorVideos.py:37-42)
    sec,            \* the argument sec, a float
    ts,             \* the returned string
    tpc,            \* "idle", "call", "done"
    \* one request (src/app.py:46-60, src/ExtractorVideos.py:76-203)
    entry,          \* the function the caller invoked: "qa_endpoint" or "get_timestamped_chunks"
    languages,      \* the argument languages of get_timestamped_chunks
    rpc,            \* the control point of the request
    primaryOutcome, \* what YouTubeTranscriptApi.get_transcript did: "none" before the call
    info,           \* the metadata ydl.extract_info returned, NoneVal before
    selectedLang,   \* the language whose entry line 129 read, "none" if none
    vtt_url,        \* the local vtt_url: "none" (None) or "url"
    rchunks,        \* the chunk list get_timestamped_chunks returned
    answer,         \* the string answer_question returned
    exc,            \* the exception propagating, "none" if none
    response,       \* what qa_endpoint answered: NoneVal before
    calls           \* history: how often each collaborator was invoked

chunkVars == <<raw, max_seconds, max_chars, idx, curr, chunks, result, pc,
               members, currMembers>>
tsVars    == <<sec, ts, tpc>>
reqVars   == <<entry, languages, rpc, primaryOutcome, info, selectedLang, vtt_url,
               rchunks, answer, exc, response, calls>>
vars      == <<chunkVars, tsVars, reqVars>>

----------------------------------------------------------------------------
(* Units and bounds                                                        *)

\* One tick is 2^-10 s (0.9765625 ms): sub-millisecond times exist.
TicksPerSecond == 2^10

\* The two low limbs of a float hold 26 bits each.
Limb == 2^26

\* The parse_segments inputs hold at most MaxCues cues.
MaxCues == 3

NoneVal == [isNone |-> TRUE]

EnDash == "u2013"

----------------------------------------------------------------------------
(* Python float arithmetic                                                 *)

\* float(n) for an int n >= 0
FromInt(n) == [t |-> n * TicksPerSecond, r1 |-> 0, r0 |-> 0]

\* a < b
FLess(a, b) ==
    \/ a.t < b.t
    \/ a.t = b.t /\ a.r1 < b.r1
    \/ a.t = b.t /\ a.r1 = b.r1 /\ a.r0 < b.r0

RECURSIVE BitLen(_)
\* the number of binary digits of n >= 0
BitLen(n) == IF n = 0 THEN 0 ELSE 1 + BitLen(n \div 2)

\* the limbs brought back below Limb, the excess carried upward
Carry(t, r1, r0) ==
    LET n1 == r1 + r0 \div Limb
    IN  [t |-> t + n1 \div Limb, r1 |-> n1 % Limb, r0 |-> r0 % Limb]

\* The rounding every float operation ends with: the float nearest to the
\* exact value x + tail, ties to even.  x has any number of significant bits;
\* tail is what the exact value has below the last bit of r0, given as 0 (nothing),
\* 1 (less than half a unit of r0), 2 (half a unit), 3 (more than half).
\* A value with t > 0 has 52 + BitLen(t) significant bits, so its low
\* e = BitLen(t) - 1 bits are rounded away; a value on the tick grid has
\* nothing to round.
Round53(x, tail) ==
    LET e == IF x.t = 0 THEN 0 ELSE BitLen(x.t) - 1
    IN  IF tail = 0 /\ x.r1 = 0 /\ x.r0 = 0
        THEN x
        ELSE IF e = 0
        THEN IF tail = 3 \/ (tail = 2 /\ x.r0 % 2 = 1)
             THEN Carry(x.t, x.r1, x.r0 + 1)
             ELSE x
        ELSE IF e <= 26
        THEN LET rem  == x.r0 % 2^e
                 half == 2^(e - 1)
                 odd  == IF e = 26 THEN x.r1 % 2 = 1 ELSE (x.r0 \div 2^e) % 2 = 1
                 up   == rem > half \/ (rem = half /\ (tail > 0 \/ odd))
             IN  Carry(x.t, x.r1, x.r0 - rem + (IF up THEN 2^e ELSE 0))
        ELSE LET d    == e - 26
                 rem  == x.r1 % 2^d
                 half == 2^(d - 1)
                 odd  == (x.r1 \div 2^d) % 2 = 1
                 up   == rem > half \/ (rem = half /\ (x.r0 > 0 \/ tail > 0 \/ odd))
             IN  Carry(x.t, x.r1 - rem + (IF up THEN 2^d ELSE 0), 0)

\* a + b
FAdd(a, b) == Round53(Carry(a.t + b.t, a.r1 + b.r1, a.r0 + b.r0), 0)

\* the exact a - b for a >= b, limb by limb with borrow
Minus(a, b) ==
    LET d0 == a.r0 - b.r0
        b0 == IF d0 < 0 THEN 1 ELSE 0
        d1 == a.r1 - b.r1 - b0
        b1 == IF d1 < 0 THEN 1 ELSE 0
    IN  [t |-> a.t - b.t - b1, r1 |-> d1 + b1 * Limb, r0 |-> d0 + b0 * Limb]

\* a - b, which may be negative: the sign and the magnitude
FSub(a, b) ==
    IF FLess(a, b)
    THEN [neg |-> TRUE, mag |-> Round53(Minus(b, a), 0)]
    ELSE [neg |-> FALSE, mag |-> Round53(Minus(a, b), 0)]

\* d > n for a float difference d and an int n >= 0
FGtInt(d, n) == ~d.neg /\ FLess(FromInt(n), d.mag)

\* one step of the exact product by 1000 = 10 * 10 * 10: the fraction
\* (f, r1, r0) of a second (f of 10 bits) times 10, the overflow added to i
Mul10(v) ==
    LET p0 == v.r0 * 10
        p1 == v.r1 * 10 + p0 \div Limb
        p2 == v.f * 10 + p1 \div Limb
    IN  [i  |-> v.i * 10 + p2 \div TicksPerSecond,
         f  |-> p2 % TicksPerSecond,
         r1 |-> p1 % Limb,
         r0 |-> p0 % Limb]

\* the exact x * 1000 as whole milliseconds ms and a fraction (f, r1, r0) of
\* a millisecond
TimesThousand(x) ==
    LET g == Mul10(Mul10(Mul10([i |-> 0, f |-> x.t % TicksPerSecond,
                                r1 |-> x.r1, r0 |-> x.r0])))
    IN  [ms |-> (x.t \div TicksPerSecond) * 1000 + g.i, f |-> g.f, r1 |-> g.r1, r0 |-> g.r0]

\* The float product sec * 1000 is the exact product rounded to 53 bits. It
\* reaches the next whole number ms + 1 exactly when the fraction is within
\* half a unit of the last kept bit below 1, that is when
\* 1 - fraction <= 2^(k - 62) / 2 with k - 1 = 9 + BitLen(ms) - 1 the number
\* of fraction bits rounded away (a tie rounds up, to the even neighbour).
RoundsToNext(p) ==
    LET k == 8 + BitLen(p.ms)
    IN  /\ p.f = TicksPerSecond - 1
        /\ IF k <= 26
           THEN p.r1 = Limb - 1 /\ (Limb - 1) - p.r0 < 2^k
           ELSE (Limb - 1) - p.r1 < 2^(k - 26)

----------------------------------------------------------------------------
(* seconds_to_timestamp                                                    *)

DigitChar == <<"0", "1", "2", "3", "4", "5", "6", "7", "8", "9">>

RECURSIVE Digits(_)
\* str(n) for an int n >= 0
Digits(n) ==
    IF n < 10 THEN <<DigitChar[n + 1]>>
    ELSE Digits(n \div 10) \o <<DigitChar[(n % 10) + 1]>>

RECURSIVE ZeroPad(_, _)
ZeroPad(s, width) == IF Len(s) >= width THEN s ELSE ZeroPad(<<"0">> \o s, width)

\* f"{n:0<width>d}" for n >= 0: at least width digits, zero-padded on the left
FormatD(n, width) == ZeroPad(Digits(n), width)

\* round(sec * 1000) in place of int(sec * 1000)
TotalMsRounded(s) ==
    LET p == TimesThousand(s)
    IN  p.ms + (IF p.f >= TicksPerSecond \div 2 THEN 1 ELSE 0)

\* int(sec * 1000): the float product, truncated (sec >= 0, so truncation
\* toward zero is the floor)
TotalMs(s) ==
    LET p == TimesThousand(s)
    IN  p.ms + (IF RoundsToNext(p) THEN 1 ELSE 0)

seconds_to_timestamp(s) ==
    LET total_ms == TotalMs(s)
        h        == total_ms \div 3600000
        rem1     == total_ms % 3600000
        m        == rem1 \div 60000
        rem2     == rem1 % 60000
        ss       == rem2 \div 1000
        ms       == rem2 % 1000
    IN  FormatD(h, 2) \o <<":">> \o FormatD(m, 2) \o <<":">> \o FormatD(ss, 2)
            \o <<".">> \o FormatD(ms, 3)

----------------------------------------------------------------------------
(* parse_segments                                                          *)

\* Dur, measured from the end of the last merged cue instead of the chunk's start
DurFromPrevEnd(c, seg) == FSub(seg.end, c.end)

\* dur = seg["end"] - curr["start"]
Dur(c, seg) == FSub(seg.end, c.start)

\* Length without the joining space
LengthNoSpace(c, seg) == Len(c.text) + Len(seg.text)

\* length = len(curr["text"]) + 1 + len(seg["text"])
Length(c, seg) == Len(c.text) + 1 + Len(seg.text)

\* the test of line 60 with "and" for "or"
ExceedsBoth(c, seg, ms, mc) ==
    /\ FGtInt(Dur(c, seg), ms)
    /\ Length(c, seg) > mc

\* the test of line 60: dur > max_seconds or length > max_chars
ExceedsThreshold(c, seg, ms, mc) ==
    \/ FGtInt(Dur(c, seg), ms)
    \/ Length(c, seg) > mc

\* the merge without the joining space
MergeNoSpace(c, seg) == [c EXCEPT !.end = seg.end, !.text = c.text \o seg.text]

\* lines 64-65: curr["end"] = seg["end"]; curr["text"] += " " + seg["text"]
Merge(c, seg) == [c EXCEPT !.end = seg.end, !.text = c.text \o <<" ">> \o seg.text]

\* the test "if curr:" of line 66: None is falsy, a dict with keys is truthy
Truthy(c) == c # NoneVal

\* the loop body with a closed chunk put at the front of chunks
LoopBodyPrepend(st, seg, ms, mc) ==
    IF st.curr = NoneVal
    THEN [chunks |-> st.chunks, curr |-> seg]
    ELSE IF ExceedsThreshold(st.curr, seg, ms, mc)
         THEN [chunks |-> <<st.curr>> \o st.chunks, curr |-> seg]
         ELSE [chunks |-> st.chunks, curr |-> Merge(st.curr, seg)]

\* one iteration of the for loop (lines 54-65) on the pair (chunks, curr)
\* (seg.copy() is seg here: values are immutable, and the copy is what keeps
\* the merge of lines 64-65 from writing into raw, which no step changes)
LoopBody(st, seg, ms, mc) ==
    IF st.curr = NoneVal
    THEN [chunks |-> st.chunks, curr |-> seg]
    ELSE IF ExceedsThreshold(st.curr, seg, ms, mc)
         THEN [chunks |-> Append(st.chunks, st.curr), curr |-> seg]
         ELSE [chunks |-> st.chunks, curr |-> Merge(st.curr, seg)]

\* the loop exit without the append of lines 66-67
CloseLastForgotten(st) == st.chunks

\* lines 66-67: if curr: chunks.append(curr)
CloseLast(st) == IF Truthy(st.curr) THEN Append(st.chunks, st.curr) ELSE st.chunks

\* lines 71-72: one element of result
FormatChunk(ch) ==
    [ts_range |-> <<"[">> \o seconds_to_timestamp(ch.start) \o <<EnDash>>
                      \o seconds_to_timestamp(ch.end) \o <<"]">>,
     text     |-> ch.text]

\* lines 69-73
FormatResult(chs) == [k \in 1..Len(chs) |-> FormatChunk(chs[k])]

RECURSIVE FoldLoop(_, _, _, _, _)
FoldLoop(st, cues, k, ms, mc) ==
    IF k > Len(cues) THEN st
    ELSE FoldLoop(LoopBody(st, cues[k], ms, mc), cues, k + 1, ms, mc)

\* parse_segments as a function of its arguments (lines 53-73)
parse_segments(cues, ms, mc) ==
    FormatResult(CloseLast(FoldLoop([chunks |-> <<>>, curr |-> NoneVal], cues, 1, ms, mc)))

----------------------------------------------------------------------------
(* Inputs of parse_segments                                                *)

Texts == { <<>>, <<"a", "b">> }

\* cue times: the floats 0.0, 1.0, 2.0, 3.0
Times == { FromInt(t) : t \in {0, 1, 2, 3} }

\* RawCue: end > start (spec section 3); any order of the cues in the list
Cues == { c \in [start : Times, end : Times, text : Texts] : FLess(c.start, c.end) }

CueLists == UNION { [1..n -> Cues] : n \in 0..MaxCues }

\* the pairs <<max_seconds, max_chars>> parse_segments is called with
ThresholdChoices == { <<1, 1>>, <<2, 4>> }

----------------------------------------------------------------------------
(* parse_segments, one loop iteration per step                             *)

ChunkIdle ==
    /\ raw = <<>> /\ max_seconds = 0 /\ max_chars = 0 /\ idx = 0
    /\ curr = NoneVal /\ chunks = <<>> /\ result = <<>> /\ pc = "idle"
    /\ members = <<>> /\ currMembers = <<>>

\* the call: raw, max_seconds, max_chars bound; line 53: chunks, curr = [], None
ChunkInit ==
    /\ raw \in CueLists
    /\ \E th \in ThresholdChoices : max_seconds = th[1] /\ max_chars = th[2]
    /\ idx = 1
    /\ curr = NoneVal /\ chunks = <<>> /\ result = <<>> /\ pc = "loop"
    /\ members = <<>> /\ currMembers = <<>>

LoopState == [chunks |-> chunks, curr |-> curr]

\* lines 55-57: the first cue becomes curr
LoopFirst ==
    /\ pc = "loop" /\ idx <= Len(raw)
    /\ curr = NoneVal
    /\ LET st == LoopBody(LoopState, raw[idx], max_seconds, max_chars)
       IN  chunks' = st.chunks /\ curr' = st.curr
    /\ currMembers' = <<idx>>
    /\ idx' = idx + 1
    /\ UNCHANGED <<raw, max_seconds, max_chars, result, pc, members, tsVars, reqVars>>

\* lines 60-62: a threshold is exceeded, curr is closed and seg starts a new chunk
LoopSplit ==
    /\ pc = "loop" /\ idx <= Len(raw)
    /\ curr # NoneVal
    /\ ExceedsThreshold(curr, raw[idx], max_seconds, max_chars)
    /\ LET st == LoopBody(LoopState, raw[idx], max_seconds, max_chars)
       IN  chunks' = st.chunks /\ curr' = st.curr
    /\ members' = Append(members, currMembers)
    /\ currMembers' = <<idx>>
    /\ idx' = idx + 1
    /\ UNCHANGED <<raw, max_seconds, max_chars, result, pc, tsVars, reqVars>>

\* lines 63-65: seg is merged into curr
LoopMerge ==
    /\ pc = "loop" /\ idx <= Len(raw)
    /\ curr # NoneVal
    /\ ~ExceedsThreshold(curr, raw[idx], max_seconds, max_chars)
    /\ LET st == LoopBody(LoopState, raw[idx], max_seconds, max_chars)
       IN  chunks' = st.chunks /\ curr' = st.curr
    /\ currMembers' = Append(currMembers, idx)
    /\ idx' = idx + 1
    /\ UNCHANGED <<raw, max_seconds, max_chars, result, pc, members, tsVars, reqVars>>

\* lines 66-67: the loop is over, the open chunk (if any) is closed
LoopExit ==
    /\ pc = "loop" /\ idx > Len(raw)
    /\ chunks' = CloseLast(LoopState)
    /\ members' = IF Truthy(curr) THEN Append(members, currMembers) ELSE members
    /\ pc' = "format"
    /\ UNCHANGED <<raw, max_seconds, max_chars, idx, curr, result, currMembers, tsVars, reqVars>>

\* lines 69-73: result is built and returned
FormatChunks ==
    /\ pc = "format"
    /\ result' = FormatResult(chunks)
    /\ pc' = "done"
    /\ UNCHANGED <<raw, max_seconds, max_chars, idx, curr, chunks, members, currMembers,
                   tsVars, reqVars>>

----------------------------------------------------------------------------
(* Helpers of the two subtitle sources and of the completion client        *)

\* the characters str.strip() removes: those str.isspace() holds of
\* (U+0009-000D, U+001C-001F, U+0020, U+0085, U+00A0, U+1680, U+2000-200A,
\* U+2028, U+2029, U+202F, U+205F, U+3000)
Whitespace ==
    { "\t", "\n", "u000B", "\f", "\r", "u001C", "u001D", "u001E", "u001F", " ",
      "u0085", "u00A0", "u1680",
      "u2000", "u2001", "u2002", "u2003", "u2004", "u2005", "u2006", "u2007",
      "u2008", "u2009", "u200A",
      "u2028", "u2029", "u202F", "u205F", "u3000" }

IsSpace(c) == c \in Whitespace

RECURSIVE LStrip(_)
LStrip(s) == IF s # <<>> /\ IsSpace(Head(s)) THEN LStrip(Tail(s)) ELSE s

RECURSIVE RStrip(_)
RStrip(s) ==
    IF s # <<>> /\ IsSpace(s[Len(s)]) THEN RStrip(SubSeq(s, 1, Len(s) - 1)) ELSE s

\* str.strip()
Strip(s) == RStrip(LStrip(s))

\* lines 87-90: the service's {start, duration, text} to {start, end, text}
PrimarySegs(t) ==
    [k \in 1..Len(t) |->
        [start |-> t[k].start,
         end   |-> FAdd(t[k].start, t[k].duration),
         text  |-> Strip(t[k].text)]]

\* the position of the first c in s, 0 if none
RECURSIVE IndexOf(_, _, _)
IndexOf(s, c, k) ==
    IF k > Len(s) THEN 0 ELSE IF s[k] = c THEN k ELSE IndexOf(s, c, k + 1)

\* str.split(sep) for a one-character sep
RECURSIVE Split(_, _)
Split(s, sep) ==
    LET k == IndexOf(s, sep, 1)
    IN  IF k = 0 THEN <<s>>
        ELSE <<SubSeq(s, 1, k - 1)>> \o Split(SubSeq(s, k + 1, Len(s)), sep)

DigitVal(c) == CHOOSE d \in 0..9 : DigitChar[d + 1] = c

\* int(s) for a string of decimal digits
RECURSIVE ParseInt(_)
ParseInt(s) ==
    IF s = <<>> THEN 0
    ELSE ParseInt(SubSeq(s, 1, Len(s) - 1)) * 10 + DigitVal(s[Len(s)])

RECURSIVE DivBits(_, _, _, _)
\* the next n binary digits of the fraction rem / d (rem < d), appended to q,
\* and the remainder left
DivBits(q, rem, d, n) ==
    IF n = 0 THEN [q |-> q, rem |-> rem]
    ELSE IF 2 * rem >= d THEN DivBits(2 * q + 1, 2 * rem - d, d, n - 1)
    ELSE DivBits(2 * q, 2 * rem, d, n - 1)

\* float(s) for s of the form "digits" or "digits.digits" (at most 8 digits
\* after the point): the float nearest to the decimal number, ties to even.
\* The 62 binary digits of the fraction are taken by long division and the
\* remainder decides the rounding.
ParseFloat(s) ==
    LET parts == Split(s, ".")
        fr    == IF Len(parts) > 1 THEN parts[2] ELSE <<>>
        d     == 10^Len(fr)
        a     == DivBits(0, ParseInt(fr), d, 10)
        b     == DivBits(0, a.rem, d, 26)
        c     == DivBits(0, b.rem, d, 26)
        tail  == IF c.rem = 0 THEN 0
                 ELSE IF 2 * c.rem < d THEN 1
                 ELSE IF 2 * c.rem = d THEN 2
                 ELSE 3
    IN  Round53([t  |-> ParseInt(parts[1]) * TicksPerSecond + a.q,
                 r1 |-> b.q,
                 r0 |-> c.q], tail)

\* lines 149-150 / 151-152: h, m, s = c.start.split(":");
\* int(h)*3600 + int(m)*60 + float(s)
VttSeconds(stamp) ==
    LET f == Split(stamp, ":")
    IN  FAdd(FromInt(ParseInt(f[1]) * 3600 + ParseInt(f[2]) * 60), ParseFloat(f[3]))

\* str.replace("\n", " ")
ReplaceNewlines(s) == [k \in 1..Len(s) |-> IF s[k] = "\n" THEN " " ELSE s[k]]

\* lines 147-157: the parsed VTT cues to {start, end, text}
VttSegs(cues) ==
    [k \in 1..Len(cues) |->
        [start |-> VttSeconds(cues[k].start),
         end   |-> VttSeconds(cues[k].end),
         text  |-> Strip(ReplaceNewlines(cues[k].text))]]

RECURSIVE JoinLines(_, _)
\* "\n".join(f"{c['ts_range']} {c['text']}" for c in chunks), from chunk k on
JoinLines(chs, k) ==
    IF k > Len(chs) THEN <<>>
    ELSE chs[k].ts_range \o <<" ">> \o chs[k].text
            \o (IF k < Len(chs) THEN <<"\n">> \o JoinLines(chs, k + 1) ELSE <<>>)

\* build_qa_prompt: the fixed template text around lines and question is left out
build_qa_prompt(chs, question) == [lines |-> JoinLines(chs, 1), question |-> question]

RECURSIVE Accumulate(_, _)
\* lines 188-190: answer += chunk.choices[0].delta.content or ""
\* (a fragment is <<>> for a content of None, <<s>> for the content s)
Accumulate(stream, k) ==
    IF k > Len(stream) THEN <<>>
    ELSE (IF stream[k] = <<>> THEN <<>> ELSE stream[k][1]) \o Accumulate(stream, k + 1)

\* query_groq on a completed stream: lines 188-191
query_groq(stream) == Strip(Accumulate(stream, 1))

----------------------------------------------------------------------------
(* One request                                                             *)

\* the defaults of parse_segments and of get_timestamped_chunks_yt_dlp
DefaultMaxSeconds == 30
DefaultMaxChars   == 500

\* the default of the parameter languages (lines 78 and 104)
DefaultLanguages == <<"es", "en">>

Langs == {"es", "en", "fr"}

\* a caller's language preference list holds one to MaxLangs codes
MaxLangs == 2

LangLists == UNION { [1..n -> Langs] : n \in 1..MaxLangs }

\* what the try block of lines 84-91 can raise: the three exceptions the code
\* names, and any other Exception ("Other")
PrimaryErrors == {"TranscriptsDisabled", "NoTranscriptFound", "VideoUnavailable", "Other"}

\* the except clauses with NoTranscriptFound left to the generic handler
HandlerNotFoundFallsBack(e) ==
    IF e = "TranscriptsDisabled" THEN "raise_no_subtitles"
    ELSE IF e = "VideoUnavailable" THEN "raise_video_unavailable"
    ELSE "fallback"

\* the except clauses of lines 92-99, in order: which handler an exception of
\* the try block reaches
Handler(e) ==
    IF e \in {"TranscriptsDisabled", "NoTranscriptFound"} THEN "raise_no_subtitles"
    ELSE IF e = "VideoUnavailable" THEN "raise_video_unavailable"
    ELSE "fallback"

\* line 99: get_timestamped_chunks_yt_dlp(video_id) is called without
\* languages, so the callee's parameter takes its default (line 104)
FallbackLanguages(langs) == DefaultLanguages

\* line 125: info.get("requested_subtitles") or info.get("automatic_captions")
\*           or info.get("subtitles") or {}
\* A mapping is the set of language codes it has an entry for; the empty set
\* stands for {} and for a missing or None value, all falsy.
Subs(i) ==
    IF i.requested_subtitles # {} THEN i.requested_subtitles
    ELSE IF i.automatic_captions # {} THEN i.automatic_captions
    ELSE i.subtitles

RECURSIVE FirstIn(_, _, _)
\* lines 127-133: the first lang of languages that is a key of subs, "none" if none
FirstIn(langs, subs, k) ==
    IF k > Len(langs) THEN "none"
    ELSE IF langs[k] \in subs THEN langs[k]
    ELSE FirstIn(langs, subs, k + 1)

SelectLang(i, langs) == FirstIn(langs, Subs(i), 1)

\* the endpoint without its except clause turning a failure into a 500
HostResponseAlways200(a, e) == [status |-> 200, answer |-> a]

\* lines 52-60 of app.py: the answer, or HTTPException(500) for any Exception
HostResponse(a, e) ==
    IF e = "none" THEN [status |-> 200, answer |-> a]
    ELSE [status |-> 500, detail |-> e]

Infos == [requested_subtitles : SUBSET Langs,
          automatic_captions  : SUBSET Langs,
          subtitles           : SUBSET Langs]

\* the float the service's JSON number with n thousandths is read as:
\* Millis(4350) is 4.35
Millis(n) == ParseFloat(Digits(n \div 1000) \o <<".">> \o FormatD(n % 1000, 3))

\* transcripts the primary service returns ({start, duration, text})
Transcripts ==
    { <<>>,
      << [start |-> Millis(0), duration |-> Millis(5000),
          text |-> <<"H", "o", "l", "a">>],
         [start |-> Millis(5000), duration |-> Millis(4350),
          text |-> <<" ", "m", "u", "n", "d", "o", "\n">>],
         [start |-> Millis(40100), duration |-> Millis(5200),
          text |-> <<"u00A0", "a", "d", "i", "o", "s", "\r", "\n">>] >> }

\* a cue time as webvtt gives it: "HH:MM:SS.mmm"
Stamp(h, m, s, ms) ==
    FormatD(h, 2) \o <<":">> \o FormatD(m, 2) \o <<":">> \o FormatD(s, 2)
        \o <<".">> \o FormatD(ms, 3)

\* cue lists webvtt.read_buffer returns ({start, end, text} with string stamps)
VttFiles ==
    { <<>>,
      << [start |-> Stamp(0, 0, 0, 0), end |-> Stamp(0, 0, 4, 350),
          text |-> <<"h", "i", "\r", "\n", "y", "o", "u", "\r", "\n">>],
         [start |-> Stamp(0, 0, 4, 4), end |-> Stamp(0, 1, 2, 250),
          text |-> <<"o", "k", " ">>] >>,
      << [start |-> Stamp(0, 0, 2, 2), end |-> Stamp(0, 0, 10, 0),
          text |-> <<"u", "n", "o">>],
         [start |-> Stamp(0, 0, 10, 0), end |-> Stamp(0, 0, 32, 2),
          text |-> <<"d", "o", "s">>] >> }

\* fragment streams the completion service returns
Streams ==
    { <<>>,
      << << <<" ", "S", "i">> >>, <<>>, << <<".", "\r", "\n">> >> >> }

Question == <<"q", "?">>

NoCalls == [primary |-> 0, fallback |-> 0, extract |-> 0, download |-> 0,
            vttparse |-> 0, completion |-> 0]

ReqIdle ==
    /\ entry = "none" /\ languages = <<>> /\ rpc = "idle" /\ primaryOutcome = "none"
    /\ info = NoneVal /\ selectedLang = "none" /\ vtt_url = "none" /\ rchunks = <<>>
    /\ answer = <<>> /\ exc = "none" /\ response = NoneVal /\ calls = NoCalls

\* a request enters through qa_endpoint (answer_question passes no languages:
\* line 197) or a caller invokes get_timestamped_chunks with its own languages
ReqInit ==
    /\ entry \in {"qa_endpoint", "get_timestamped_chunks"}
    /\ languages \in (IF entry = "qa_endpoint" THEN {DefaultLanguages} ELSE LangLists)
    /\ rpc = (IF entry = "qa_endpoint" THEN "qa_endpoint" ELSE "primary")
    /\ primaryOutcome = "none"
    /\ info = NoneVal /\ selectedLang = "none" /\ vtt_url = "none" /\ rchunks = <<>>
    /\ answer = <<>> /\ exc = "none" /\ response = NoneVal /\ calls = NoCalls

Called(name) == [calls EXCEPT ![name] = @ + 1]

\* app.py:52-57 and lines 193-197: qa_endpoint runs answer_question, which
\* calls get_timestamped_chunks(video_id) up to the try of line 84
QaEndpoint ==
    /\ rpc = "qa_endpoint"
    /\ rpc' = "primary"
    /\ UNCHANGED <<entry, languages, primaryOutcome, info, selectedLang, vtt_url,
                   rchunks, answer, exc, response, calls, chunkVars, tsVars>>

\* lines 86-91: get_transcript returns, the cues are chunked and returned
PrimaryReturns ==
    /\ rpc = "primary"
    /\ \E t \in Transcripts :
         rchunks' = parse_segments(PrimarySegs(t), DefaultMaxSeconds, DefaultMaxChars)
    /\ primaryOutcome' = "ok"
    /\ calls' = Called("primary")
    /\ rpc' = "have_chunks"
    /\ UNCHANGED <<entry, languages, info, selectedLang, vtt_url, answer, exc,
                   response, chunkVars, tsVars>>

\* lines 92-95: a definitive error is re-raised as RuntimeError
PrimaryDefinitive ==
    /\ rpc = "primary"
    /\ \E e \in PrimaryErrors :
         /\ Handler(e) # "fallback"
         /\ primaryOutcome' = e
         /\ exc' = (IF Handler(e) = "raise_no_subtitles"
                    THEN "RuntimeError: no subtitles"
                    ELSE "RuntimeError: video unavailable")
    /\ calls' = Called("primary")
    /\ rpc' = "raised"
    /\ UNCHANGED <<entry, languages, info, selectedLang, vtt_url, rchunks, answer,
                   response, chunkVars, tsVars>>

\* lines 96-99: any other exception calls get_timestamped_chunks_yt_dlp
PrimaryOther ==
    /\ rpc = "primary"
    /\ \E e \in PrimaryErrors :
         /\ Handler(e) = "fallback"
         /\ primaryOutcome' = e
    /\ calls' = [calls EXCEPT !.primary = @ + 1, !.fallback = @ + 1]
    /\ rpc' = "fb_extract"
    /\ UNCHANGED <<entry, languages, info, selectedLang, vtt_url, rchunks, answer,
                   exc, response, chunkVars, tsVars>>

\* lines 121-122: ydl.extract_info returns the metadata, or raises
FbExtractInfo ==
    /\ rpc = "fb_extract"
    /\ calls' = Called("extract")
    /\ \/ /\ info' \in Infos
          /\ rpc' = "fb_select"
          /\ UNCHANGED exc
       \/ /\ exc' = "DownloadError"
          /\ rpc' = "raised"
          /\ UNCHANGED info
    /\ UNCHANGED <<entry, languages, primaryOutcome, selectedLang, vtt_url, rchunks,
                   answer, response, chunkVars, tsVars>>

\* lines 125-135: the entry is selected; entry.get("url") is the url or None
FbSelect ==
    /\ rpc = "fb_select"
    /\ selectedLang' = SelectLang(info, FallbackLanguages(languages))
    /\ \E url \in {"none", "url"} :
         vtt_url' = (IF selectedLang' = "none" THEN "none" ELSE url)
    /\ IF vtt_url' = "none"
       THEN exc' = "RuntimeError: no VTT" /\ rpc' = "raised"
       ELSE exc' = exc /\ rpc' = "fb_download"
    /\ UNCHANGED <<entry, languages, primaryOutcome, info, rchunks, answer, response,
                   calls, chunkVars, tsVars>>

\* lines 138-139: requests.get and raise_for_status
FbDownload ==
    /\ rpc = "fb_download"
    /\ calls' = Called("download")
    /\ \/ rpc' = "fb_parse" /\ UNCHANGED exc
       \/ rpc' = "raised" /\ exc' = "RequestException"
    /\ UNCHANGED <<entry, languages, primaryOutcome, info, selectedLang, vtt_url,
                   rchunks, answer, response, chunkVars, tsVars>>

\* lines 140-158: the VTT text is parsed, converted and chunked, or the parse fails
FbParse ==
    /\ rpc = "fb_parse"
    /\ calls' = Called("vttparse")
    /\ \/ /\ \E v \in VttFiles :
               rchunks' = parse_segments(VttSegs(v), DefaultMaxSeconds, DefaultMaxChars)
          /\ rpc' = "have_chunks"
          /\ UNCHANGED exc
       \/ /\ exc' = "RuntimeError: VTT parse"
          /\ rpc' = "raised"
          /\ UNCHANGED rchunks
    /\ UNCHANGED <<entry, languages, primaryOutcome, info, selectedLang, vtt_url,
                   answer, response, chunkVars, tsVars>>

\* lines 202-203: the prompt is built and sent; the stream is accumulated, or
\* the completion service fails
Completion ==
    /\ rpc = "have_chunks" /\ entry = "qa_endpoint"
    /\ calls' = Called("completion")
    /\ \/ /\ \E st \in Streams :
               /\ build_qa_prompt(rchunks, Question).question = Question
               /\ answer' = query_groq(st)
          /\ rpc' = "answered"
          /\ UNCHANGED exc
       \/ /\ exc' = "GroqError"
          /\ rpc' = "raised"
          /\ UNCHANGED answer
    /\ UNCHANGED <<entry, languages, primaryOutcome, info, selectedLang, vtt_url,
                   rchunks, response, chunkVars, tsVars>>

\* app.py:58-60: the host boundary answers
Respond ==
    /\ entry = "qa_endpoint"
    /\ rpc \in {"answered", "raised"}
    /\ response' = HostResponse(answer, exc)
    /\ rpc' = "done"
    /\ UNCHANGED <<entry, languages, primaryOutcome, info, selectedLang, vtt_url,
                   rchunks, answer, exc, calls, chunkVars, tsVars>>

----------------------------------------------------------------------------
(* seconds_to_timestamp, one call per behaviour                            *)

HourChoices   == {0, 1, 100}
MinuteChoices == {0, 2, 59}
SecondChoices == {0, 4, 5, 59}

\* every sub-second tick of each chosen h:m:s: floats on which sec * 1000 is
\* exact
GridInputs ==
    { [t |-> ((h * 60 + m) * 60 + s) * TicksPerSecond + f, r1 |-> 0, r0 |-> 0] :
        h \in HourChoices, m \in MinuteChoices, s \in SecondChoices,
        f \in 0..(TicksPerSecond - 1) }

\* every millisecond of each chosen h:m:s, as the float lines 149-152 make of
\* the cue time "h:m:s.ms" and parse_segments hands on as a chunk's start or end
DecimalInputs ==
    { VttSeconds(Stamp(h, m, s, ms)) :
        h \in HourChoices, m \in MinuteChoices, s \in SecondChoices, ms \in 0..999 }

SecInputs == GridInputs \cup DecimalInputs

TsIdle == sec = FromInt(0) /\ ts = <<>> /\ tpc = "idle"

TsInit == sec \in SecInputs /\ ts = <<>> /\ tpc = "call"

TsCall ==
    /\ tpc = "call"
    /\ ts' = seconds_to_timestamp(sec)
    /\ tpc' = "done"
    /\ UNCHANGED <<sec, chunkVars, reqVars>>

----------------------------------------------------------------------------
(* Specifications                                                          *)

ChunkNext ==
    \/ LoopFirst
    \/ LoopSplit
    \/ LoopMerge
    \/ LoopExit
    \/ FormatChunks

ReqNext ==
    \/ QaEndpoint
    \/ PrimaryReturns
    \/ PrimaryDefinitive
    \/ PrimaryOther
    \/ FbExtractInfo
    \/ FbSelect
    \/ FbDownload
    \/ FbParse
    \/ Completion
    \/ Respond

TsNext == TsCall

InitChunk ==
    /\ ChunkInit
    /\ TsIdle /\ ReqIdle

InitTs ==
    /\ TsInit
    /\ ChunkIdle /\ ReqIdle

InitReq ==
    /\ ReqInit
    /\ ChunkIdle /\ TsIdle

\* parse_segments called on every bounded input
SpecChunk == InitChunk /\ [][ChunkNext]_vars

\* seconds_to_timestamp called on every bounded input
SpecTs == InitTs /\ [][TsNext]_vars

\* one request, with every outcome of the collaborators
SpecReq == InitReq /\ [][ReqNext]_vars

----------------------------------------------------------------------------
(* Properties of parse_segments (checked under SpecChunk)                  *)

Last(q) == q[Len(q)]

\* a time on the tick grid (every time of CueLists is) as its number of ticks
Ticks(x) == x.t

RECURSIVE SumLen(_, _)
SumLen(groups, k) == IF k > Len(groups) THEN 0 ELSE Len(groups[k]) + SumLen(groups, k + 1)

\* the chunks that hold input cue i
Holders(i) == { k \in 1..Len(members) : \E j \in 1..Len(members[k]) : members[k][j] = i }

\* the cues of the list are ordered by start, ascending
StartOrdered(cues) ==
    \A i \in 1..(Len(cues) - 1) : Ticks(cues[i].start) <= Ticks(cues[i + 1].start)

\* the same with no two cues starting together
StrictlyStartOrdered(cues) ==
    \A i \in 1..(Len(cues) - 1) : Ticks(cues[i].start) < Ticks(cues[i + 1].start)

\* no cue begins before the cue before it has ended
NonOverlapping(cues) ==
    \A i \in 1..(Len(cues) - 1) : Ticks(cues[i].end) <= Ticks(cues[i + 1].start)

\* the ends of the cues never decrease along the list
EndOrdered(cues) ==
    \A i \in 1..(Len(cues) - 1) : Ticks(cues[i].end) <= Ticks(cues[i + 1].end)

RECURSIVE JoinedText(_, _)
\* the texts of the cues raw[g[k]], raw[g[k+1]], ... separated by one space
JoinedText(g, k) ==
    IF k = Len(g) THEN raw[g[k]].text
    ELSE raw[g[k]].text \o <<" ">> \o JoinedText(g, k + 1)

\* the chunk that holds cue i once parse_segments is done
ChunkOf(i) == CHOOSE k \in 1..Len(members) : \E j \in 1..Len(members[k]) : members[k][j] = i

\* C1: once parse_segments has returned, the chunks partition the input:
\* every input cue is in exactly one chunk, every chunk is a non-empty run of
\* consecutive cues, the chunks' cue counts sum to the input's, and the
\* result has one element per chunk (none for an empty input).
C1_Partition ==
    pc = "done" =>
        /\ Len(result) = Len(members)
        /\ Len(chunks) = Len(members)
        /\ \A i \in 1..Len(raw) : Cardinality(Holders(i)) = 1
        /\ \A k \in 1..Len(members) :
              /\ Len(members[k]) >= 1
              /\ \A j \in 1..Len(members[k]) :
                    /\ members[k][j] \in 1..Len(raw)
                    /\ j > 1 => members[k][j] = members[k][j - 1] + 1
        /\ SumLen(members, 1) = Len(raw)
        /\ (raw = <<>> => result = <<>>)

C1_Witness ==
    /\ pc = "done"
    /\ Len(raw) = 3
    /\ Len(result) = 2
    /\ Len(members[1]) = 2

\* C2: for every cue i after the first, with F the first cue of the chunk that
\* holds cue i-1 and T that chunk's text so far (the texts of cues F..i-1
\* joined by one space): cue i starts a new chunk exactly when
\* raw[i].end - raw[F].start > max_seconds or len(T) + 1 + len(raw[i].text) >
\* max_chars, and joins the chunk of cue i-1 otherwise.
C2_SplitRule ==
    pc = "done" =>
        \A i \in 2..Len(raw) :
            LET kp   == ChunkOf(i - 1)
                ki   == ChunkOf(i)
                prev == members[kp]
                F    == prev[1]
                T    == JoinedText(SubSeq(prev, 1, (i - 1) - F + 1), 1)
                over == \/ Ticks(raw[i].end) - Ticks(raw[F].start)
                               > max_seconds * TicksPerSecond
                        \/ Len(T) + 1 + Len(raw[i].text) > max_chars
            IN  /\ over <=> (ki = kp + 1 /\ members[ki][1] = i)
                /\ ~over <=> ki = kp

\* three abutting one-second cues with max_seconds = 2: the third is split off
\* although it starts where the second ends
C2_Witness ==
    /\ pc = "done"
    /\ max_seconds = 2
    /\ Len(raw) = 3
    /\ \A i \in 1..3 : /\ raw[i].start = FromInt(i - 1)
                       /\ raw[i].end = FromInt(i)
                       /\ raw[i].text = <<>>
    /\ members = << <<1, 2>>, <<3>> >>

\* the chunks follow each other in the order of the input and do not overlap
OrderedDisjoint ==
    \A k \in 1..(Len(chunks) - 1) :
        /\ Ticks(chunks[k].end) <= Ticks(chunks[k + 1].start)
        /\ Last(members[k]) < members[k + 1][1]

\* C3 as stated: for start-ordered input (end > start holds of every modelled
\* cue) the chunks keep the input's order and consecutive chunks never overlap.
\* Stated here for strictly increasing starts, the narrowest reading of
\* "ordered by start ascending".
C3_Original == (pc = "done" /\ StrictlyStartOrdered(raw)) => OrderedDisjoint

\* C3 amended: the same, for start-ordered input in which no cue begins before
\* the previous cue has ended.
C3_OrderedDisjoint ==
    (pc = "done" /\ StartOrdered(raw) /\ NonOverlapping(raw)) => OrderedDisjoint

C3_Witness ==
    /\ pc = "done"
    /\ StartOrdered(raw) /\ NonOverlapping(raw)
    /\ Len(raw) = 3
    /\ Len(chunks) = 2
    /\ Len(members[2]) = 2

\* the cue alone exceeds a threshold
Oversized(c) ==
    \/ Ticks(c.end) - Ticks(c.start) > max_seconds * TicksPerSecond
    \/ Len(c.text) > max_chars

\* cue i is a chunk of its own, with its start, end and text as given
EmittedAlone(i) ==
    \E k \in 1..Len(members) :
        /\ members[k] = <<i>>
        /\ chunks[k] = raw[i]
        /\ result[k].text = raw[i].text
        /\ result[k].ts_range = <<"[">> \o seconds_to_timestamp(raw[i].start) \o <<EnDash>>
                                    \o seconds_to_timestamp(raw[i].end) \o <<"]">>

OversizedAlone ==
    /\ Len(result) <= Len(raw)
    /\ \A i \in 1..Len(raw) : Oversized(raw[i]) => EmittedAlone(i)
    /\ ( /\ Len(raw) = 1
         /\ Ticks(raw[1].end) - Ticks(raw[1].start) > max_seconds * TicksPerSecond
         /\ Len(raw[1].text) > max_chars ) => Len(result) = 1

\* C6 as stated: in any start-ordered input, a cue that alone exceeds
\* max_seconds or max_chars is emitted as a chunk of its own, unmodified, and a
\* single oversized cue yields exactly one chunk.  Stated here for strictly
\* increasing starts, the narrowest reading of "start-ordered".
C6_Original == (pc = "done" /\ StrictlyStartOrdered(raw)) => OversizedAlone

\* C6 amended: the same, for start-ordered input whose cue ends never decrease.
C6_OversizedAlone ==
    (pc = "done" /\ StartOrdered(raw) /\ EndOrdered(raw)) => OversizedAlone

C6_Witness ==
    /\ pc = "done"
    /\ StartOrdered(raw) /\ EndOrdered(raw)
    /\ Len(raw) = 3
    /\ Ticks(raw[2].end) - Ticks(raw[2].start) > max_seconds * TicksPerSecond
    /\ Len(raw[2].text) <= max_chars
    /\ members[2] = <<2>>
    /\ chunks[2] = raw[2]

\* C7: every emitted chunk runs from the start of its first cue to the end of
\* its last cue, its ts_range is rendered from these two times, and its text
\* is its cues' texts in input order with exactly one space between them.
C7_ChunkContent ==
    pc = "done" =>
        \A k \in 1..Len(members) :
            LET g == members[k]
            IN  /\ chunks[k].start = raw[g[1]].start
                /\ chunks[k].end = raw[Last(g)].end
                /\ result[k].text = JoinedText(g, 1)
                /\ result[k].ts_range =
                       <<"[">> \o seconds_to_timestamp(raw[g[1]].start) \o <<EnDash>>
                           \o seconds_to_timestamp(raw[Last(g)].end) \o <<"]">>

C7_Witness ==
    /\ pc = "done"
    /\ members = << <<1, 2, 3>> >>
    /\ raw[1].text = <<>> /\ raw[2].text = <<"a", "b">> /\ raw[3].text = <<>>
    /\ result[1].text = <<" ", "a", "b", " ">>
    /\ Ticks(raw[3].end) > Ticks(raw[1].end) /\ Ticks(raw[1].start) < Ticks(raw[3].start)
    /\ chunks[1].start = raw[1].start /\ chunks[1].end = raw[3].end

\* C10: a chunk built from two or more cues spans at most max_seconds from
\* the start of its first cue to the end of its last, and its joined text has
\* at most max_chars characters.
C10_MergedWithin ==
    pc = "done" =>
        \A k \in 1..Len(members) :
            Len(members[k]) >= 2 =>
                /\ Ticks(raw[Last(members[k])].end) - Ticks(raw[members[k][1]].start)
                       <= max_seconds * TicksPerSecond
                /\ Len(result[k].text) <= max_chars

\* a merged chunk at both limits, next to a single-cue chunk over both
C10_Witness ==
    /\ pc = "done"
    /\ Len(members) = 2
    /\ Len(members[1]) = 2
    /\ Ticks(chunks[1].end) - Ticks(chunks[1].start) = max_seconds * TicksPerSecond
    /\ Len(result[1].text) = max_chars
    /\ Len(members[2]) = 1
    /\ Ticks(chunks[2].end) - Ticks(chunks[2].start) > max_seconds * TicksPerSecond
    /\ Len(result[2].text) > max_chars

----------------------------------------------------------------------------
(* Properties of seconds_to_timestamp (checked under SpecTs)               *)

IsDigits(q) == \A k \in 1..Len(q) : \E d \in 1..10 : DigitChar[d] = q[k]

\* the string q is h:m:s.ms with h, m, s of two digits (h of more only when it
\* needs them) and ms of three, m < 60, s < 60, ms < 1000 and
\* h*3600000 + m*60000 + s*1000 + ms = T
Renders(q, T) ==
    LET n   == Len(q)
        hh  == SubSeq(q, 1, n - 10)
        mm  == SubSeq(q, n - 8, n - 7)
        ss  == SubSeq(q, n - 5, n - 4)
        mmm == SubSeq(q, n - 2, n)
    IN  /\ n >= 12
        /\ q[n - 9] = ":" /\ q[n - 6] = ":" /\ q[n - 3] = "."
        /\ IsDigits(hh) /\ IsDigits(mm) /\ IsDigits(ss) /\ IsDigits(mmm)
        /\ Len(hh) > 2 => hh[1] # "0"
        /\ ParseInt(mm) < 60 /\ ParseInt(ss) < 60 /\ ParseInt(mmm) < 1000
        /\ ParseInt(hh) * 3600000 + ParseInt(mm) * 60000 + ParseInt(ss) * 1000
               + ParseInt(mmm) = T

\* the time x truncated to whole milliseconds: the whole part of the exact
\* (unrounded) product x * 1000
ExactMs(x) == TimesThousand(x).ms

\* the exact product x * 1000 lies less than 2^-24 below the next whole number:
\* of the 62 fraction bits the 24 highest are all ones
NearNextMs(x) ==
    LET p == TimesThousand(x)
    IN  p.f = TicksPerSecond - 1 /\ (Limb - 1) - p.r1 < 2^12

\* x * 1000 is a float: x is a multiple of 2^-10 s (1000 * 2^-10 has three
\* fraction bits, and the whole part stays far below 2^50)
ExactProduct(x) == x.r1 = 0 /\ x.r0 = 0

\* the float 3725.25
Example3725 == [t |-> 3725 * TicksPerSecond + TicksPerSecond \div 4, r1 |-> 0, r0 |-> 0]

ExampleText == <<"0", "1", ":", "0", "2", ":", "0", "5", ".", "2", "5", "0">>

----------------------------------------------------------------------------
(* Properties of a request (checked under SpecReq)                         *)

Definitive == {"TranscriptsDisabled", "NoTranscriptFound", "VideoUnavailable"}

\* C4: after a definitive primary-source error the fallback source is never
\* invoked and the request has failed at once; the fallback source is invoked
\* only after a non-definitive primary-source error, and then exactly once.
C4_FallbackPolicy ==
    /\ primaryOutcome \in Definitive =>
          /\ calls.fallback = 0 /\ calls.extract = 0
          /\ exc \in {"RuntimeError: no subtitles", "RuntimeError: video unavailable"}
          /\ rpc \in {"raised", "done"}
    /\ calls.fallback <= 1 /\ calls.extract <= 1
    /\ calls.fallback = 1 <=> primaryOutcome = "Other"

C4_Witness ==
    /\ primaryOutcome = "NoTranscriptFound"
    /\ rpc = "raised"
    /\ exc = "RuntimeError: no subtitles"
    /\ calls.primary = 1

\* the set of elements of a sequence
Range(q) == { q[k] : k \in 1..Len(q) }

\* C5: once the fallback source has read the metadata for a request with
\* preference list languages, the entry it selected is for the first language
\* of languages that has an entry in any of the three mappings ("none"
\* if there is none), never for a language outside languages.
C5_Claim ==
    (info # NoneVal /\ rpc # "fb_select") =>
        /\ selectedLang =
               FirstIn(languages,
                       info.requested_subtitles \cup info.automatic_captions
                           \cup info.subtitles, 1)
        /\ selectedLang \in Range(languages) \cup {"none"}

RetrievalFailures ==
    {"RuntimeError: no subtitles", "RuntimeError: video unavailable", "DownloadError",
     "RuntimeError: no VTT", "RequestException", "RuntimeError: VTT parse"}

\* C9: in a request through qa_endpoint, each collaborator is invoked at most
\* once; after a failed subtitle retrieval the completion service is never
\* called; a failure leaves nothing to do but answer, and the answer is then
\* an error status, not an answer.
C9_FailuresFatal ==
    entry = "qa_endpoint" =>
        /\ \A c \in DOMAIN calls : calls[c] <= 1
        /\ exc \in RetrievalFailures => calls.completion = 0
        /\ exc # "none" => rpc \in {"raised", "done"}
        /\ rpc = "raised" => ENABLED Respond
        /\ rpc = "done" =>
              IF exc = "none"
              THEN response = [status |-> 200, answer |-> answer]
              ELSE response.status = 500 /\ "answer" \notin DOMAIN response

C9_Witness ==
    /\ entry = "qa_endpoint"
    /\ rpc = "done"
    /\ exc = "RuntimeError: VTT parse"
    /\ calls = [primary |-> 1, fallback |-> 1, extract |-> 1, download |-> 1,
                vttparse |-> 1, completion |-> 0]
    /\ response = [status |-> 500, detail |-> "RuntimeError: VTT parse"]

====
